---- MODULE Spec2Model ----
(***************************************************************************)
(* Model of detectron2/modeling/roi_heads/roi_heads.py (DoNet):            *)
(*   - ROIHeads._sample_proposals / ROIHeads.label_and_sample_proposals    *)
(*     (proposal-to-ground-truth labeling and class-balanced sampling),    *)
(*   - TripleBranchROIHeads.__init__ / forward / forward_with_given_boxes  *)
(*     (multi-branch mask head orchestration).                             *)
(* Indices into Python lists and tensors are kept 0-based, as in the       *)
(* source; At(s, i) reads element i of a sequence.                         *)
(* Boxes are one-dimensional intervals <<x1, x2>>; the all-zero box is     *)
(* <<0, 0>>.                                                               *)
(***************************************************************************)
EXTENDS Integers, Sequences, FiniteSets, TLC

(* ------------------------------ bounds -------------------------------- *)
MaxClasses == 3
MaxBatch == 2
MaxImages == 2
MaxTargets == 2
MaxProposals == 2
MaxCoord == 2
MaxPixels == 2

(* --------------------------- program constants ------------------------ *)
\* roi_heads.py:215  gt_classes[gt_classes == filter_out_class] = 2
RemapClass == 2
\* roi_heads.py:213  label of proposals the matcher marks "ignore"
IgnoreLabel == -1

VARIABLES
    \* ROIHeads configuration (set in __init__, roi_heads.py:159-178)
    num_classes, batch_size_per_image, positive_sample_fraction,
    proposal_append_gt, iou_thresholds,
    \* the arguments of the last label_and_sample_proposals call
    in_proposals, in_targets, in_filter,
    \* its outcome: "done" (returned) or "error" (raised), the returned list,
    \* and the per-image values of its locals (matched_idxs, matched_labels,
    \* the full gt_classes vector, sampled_fg_idxs, sampled_bg_idxs, sampled_idxs)
    phase, out, locals,
    \* TripleBranchROIHeads: "none" (not built), "ok" (built), "failed" (__init__ raised)
    head,
    \* its configuration flags (roi_heads.py:1395-1429), written by __init__ only
    flags,
    \* self.unlabeled (roi_heads.py:1408, 1758)
    unlabeled,
    \* the forward invocation in progress: its position, arguments and locals
    fw,
    \* the mask-branch calls of the last training and the last inference invocation
    routes,
    \* one evaluation of the "MX" consistency term: its input logits and its value
    mx,
    \* a finished forward invocation kept for comparison with later ones
    ref,
    \* one call of select_foreground_proposals: its arguments and what it returned
    sel

cfgvars == <<num_classes, batch_size_per_image, positive_sample_fraction,
             proposal_append_gt, iou_thresholds>>

lvars == <<in_proposals, in_targets, in_filter, phase, out, locals>>

hvars == <<head, flags, unlabeled, fw, routes, ref>>

mvars == <<mx, sel>>

vars == <<cfgvars, lvars, hvars, mvars>>

(* ------------------------------ helpers ------------------------------- *)
At(s, i) == s[i + 1]

Min(a, b) == IF a <= b THEN a ELSE b

Max(a, b) == IF a >= b THEN a ELSE b

Range(s) == {s[i] : i \in 1..Len(s)}

SeqsUpTo(S, n) == UNION {[1..k -> S] : k \in 0..n}

NonEmptySeqsUpTo(S, n) == UNION {[1..k -> S] : k \in 1..n}

RECURSIVE SumLen(_)
SumLen(ss) == IF ss = <<>> THEN 0 ELSE Len(Head(ss)) + SumLen(Tail(ss))

\* all sequences of k distinct elements of S: torch.randperm(|S|)[:k] applied to S
InjSeqs(S, k) == {s \in [1..k -> S] : \A i, j \in 1..k : i # j => s[i] # s[j]}

(* ------------------------------ inputs -------------------------------- *)
Boxes == {<<a, b>> : a \in 0..MaxCoord, b \in 0..MaxCoord} \ {<<a, b>> \in (0..MaxCoord) \X (0..MaxCoord) : a >= b}

ZeroBox == <<0, 0>>

\* the mask annotation of an object (a further gt_ field of the targets): one
\* value per object, told apart by the object's class and box
MaskOf(c, b) == <<"mask", c, b>>

Targets(nc) ==
    {[gt_classes |-> c, gt_boxes |-> b, gt_masks |-> MaskOf(c, b)] : c \in 0..(nc - 1), b \in Boxes}

\* a batch of target sets: 1 to MaxImages images, at most MaxTargets objects in all
TargetLists(nc) == {ts \in NonEmptySeqsUpTo(SeqsUpTo(Targets(nc), MaxTargets), MaxImages) : SumLen(ts) <= MaxTargets}

\* a batch of proposal sets: 1 to MaxImages images, at most MaxProposals boxes in all
ProposalLists == {ps \in NonEmptySeqsUpTo(SeqsUpTo(Boxes, MaxProposals), MaxImages) : SumLen(ps) <= MaxProposals}

\* positive fractions as <<numerator, denominator>>
PositiveFractions == {<<3, 4>>, <<1, 1>>}

\* cfg.MODEL.ROI_HEADS.IOU_THRESHOLDS as <<low, high>> in percent
IouThresholds == {<<30, 50>>, <<50, 70>>}

(* ------------------------- collaborators (spec) ------------------------ *)
\* pairwise_iou of two boxes as <<intersection, union>>
BoxIoU(g, p) ==
    LET inter == Max(0, Min(g[2], p[2]) - Max(g[1], p[1]))
    IN  <<inter, (g[2] - g[1]) + (p[2] - p[1]) - inter>>

\* a / b >= t / 100, with 0 / 0 read as IoU 0
IoUAtLeast(q, t) == IF q[2] = 0 THEN 0 >= t ELSE q[1] * 100 >= t * q[2]

\* q1 > q2 as fractions
IoUGreater(q1, q2) ==
    LET a == IF q1[2] = 0 THEN <<0, 1>> ELSE q1
        b == IF q2[2] = 0 THEN <<0, 1>> ELSE q2
    IN  a[1] * b[2] > b[1] * a[2]

\* Matcher: index (0-based) of the first ground-truth box with maximal IoU
MatchedIdx(gtb, p) ==
    IF Len(gtb) = 0 THEN 0
    ELSE (CHOOSE i \in 1..Len(gtb) :
            /\ \A k \in 1..Len(gtb) : ~IoUGreater(BoxIoU(gtb[k], p), BoxIoU(gtb[i], p))
            /\ \A k \in 1..(i - 1) : IoUGreater(BoxIoU(gtb[i], p), BoxIoU(gtb[k], p))) - 1

\* Matcher: 0 below the low threshold, -1 between the thresholds, 1 from the high one
MatchedLabel(gtb, p, thr) ==
    IF Len(gtb) = 0 THEN 0
    ELSE LET q == BoxIoU(At(gtb, MatchedIdx(gtb, p)), p)
         IN  IF IoUAtLeast(q, thr[2]) THEN 1
             ELSE IF IoUAtLeast(q, thr[1]) THEN -1 ELSE 0

\* add_ground_truth_to_proposals for one image: the gt boxes follow the proposals
AppendGt(gtb, props) == props \o gtb

\* subsample_labels: the largest positive count whose share of a batch of bs is
\* "no larger than positive_sample_fraction" (roi_heads.py:234-236): bs * pf
\* truncated to an integer, pf = <<numerator, denominator>>
PositiveCap(bs, pf) == (bs * pf[1]) \div pf[2]

\* subsample_labels: the pool of positive indices (0-based)
PositivePool(labels, bg) == {i \in 0..(Len(labels) - 1) : At(labels, i) >= 0 /\ At(labels, i) < bg}

\* subsample_labels: the pool of negative indices (0-based)
NegativePool(labels, bg) == {i \in 0..(Len(labels) - 1) : At(labels, i) = bg}

NumPos(labels, bs, pf, bg) == Min(Cardinality(PositivePool(labels, bg)), PositiveCap(bs, pf))

NumNeg(labels, bs, pf, bg) == Min(Cardinality(NegativePool(labels, bg)), bs - NumPos(labels, bs, pf, bg))

\* subsample_labels: every <<fg_idxs, bg_idxs>> the random draw can return
subsample_labels(labels, bs, pf, bg) ==
    InjSeqs(PositivePool(labels, bg), NumPos(labels, bs, pf, bg))
        \X InjSeqs(NegativePool(labels, bg), NumNeg(labels, bs, pf, bg))

(* ----------------------- ROIHeads._sample_proposals -------------------- *)
\* roi_heads.py:209  gt_classes = gt_classes[matched_idxs]
GatherClasses(gt_classes, matched_idxs) ==
    [i \in 1..Len(matched_idxs) |-> At(gt_classes, matched_idxs[i])]

\* mutant: unmatched proposals keep the class of their best ground truth
BackgroundOverwrite_Off(c, label, nc) == c

\* roi_heads.py:211  gt_classes[matched_labels == 0] = self.num_classes
BackgroundOverwrite(c, label, nc) == IF label = 0 THEN nc ELSE c

\* roi_heads.py:213  gt_classes[matched_labels == -1] = -1
IgnoreOverwrite(c, label) == IF label = -1 THEN IgnoreLabel ELSE c

\* roi_heads.py:214-215  the filter_out_class remap
FilterRemap(c, f) == IF f # -1 /\ c = f THEN RemapClass ELSE c

\* mutant: the background offset is forgotten
NoGtClasses_Zeros(matched_idxs, nc) == [i \in 1..Len(matched_idxs) |-> 0]

\* roi_heads.py:217  torch.zeros_like(matched_idxs) + self.num_classes
NoGtClasses(matched_idxs, nc) == [i \in 1..Len(matched_idxs) |-> 0 + nc]

\* roi_heads.py:206-217  the label of every proposal
ResolvedClasses(matched_idxs, matched_labels, gt_classes, f, nc) ==
    IF Len(gt_classes) > 0
    THEN LET g == GatherClasses(gt_classes, matched_idxs)
         IN  [i \in 1..Len(matched_idxs) |->
                FilterRemap(IgnoreOverwrite(BackgroundOverwrite(g[i], matched_labels[i], nc),
                                            matched_labels[i]), f)]
    ELSE NoGtClasses(matched_idxs, nc)

\* mutant: batch size and background label passed in each other's place
SamplerCall_Swapped(labels, bs, pf, nc) == subsample_labels(labels, nc, pf, bs)

\* mutant: the positive fraction is not passed on (every sample may be positive)
SamplerCall_NoFraction(labels, bs, pf, nc) == subsample_labels(labels, bs, <<1, 1>>, nc)

\* roi_heads.py:219-221  the call of the sampler with the head's configuration
SamplerCall(labels, bs, pf, nc) == subsample_labels(labels, bs, pf, nc)

\* mutant: the sampled negatives are concatenated in front of the positives
SampledIdxs_BgFirst(fg, bg) == bg \o fg

\* mutant: the sampled positives are concatenated twice
SampledIdxs_FgTwice(fg, bg) == fg \o fg \o bg

\* roi_heads.py:223  torch.cat([sampled_fg_idxs, sampled_bg_idxs], dim=0)
SampledIdxs(fg, bg) == fg \o bg

\* mutant: the labels are read at the output positions, not at the sampled indices
SampledClasses_Unindexed(labels, idxs) == [k \in 1..Len(idxs) |-> labels[k]]

\* roi_heads.py:224  gt_classes[sampled_idxs]
SampledClasses(labels, idxs) == [k \in 1..Len(idxs) |-> At(labels, idxs[k])]

\* roi_heads.py:184-224  every <<sampled_idxs, labels>> (with the locals) it can return
sample_proposals(matched_idxs, matched_labels, gt_classes, f, nc, bs, pf) ==
    LET labels == ResolvedClasses(matched_idxs, matched_labels, gt_classes, f, nc)
    IN  {[sampled_fg_idxs |-> d[1], sampled_bg_idxs |-> d[2],
          sampled_idxs |-> SampledIdxs(d[1], d[2]),
          gt_classes |-> SampledClasses(labels, SampledIdxs(d[1], d[2])),
          labels |-> labels] : d \in SamplerCall(labels, bs, pf, nc)}

(* ------------------- ROIHeads.label_and_sample_proposals --------------- *)
GtBoxes(tgts) == [j \in 1..Len(tgts) |-> tgts[j].gt_boxes]

GtClasses(tgts) == [j \in 1..Len(tgts) |-> tgts[j].gt_classes]

\* roi_heads.py:278-279  self.proposal_matcher(match_quality_matrix)
MatchedIdxs(tgts, props) == [i \in 1..Len(props) |-> MatchedIdx(GtBoxes(tgts), props[i])]

MatchedLabels(tgts, props, thr) == [i \in 1..Len(props) |-> MatchedLabel(GtBoxes(tgts), props[i], thr)]

\* roi_heads.py:285  proposals_per_image[sampled_idxs]
SliceProposals(props, idxs) == [k \in 1..Len(idxs) |-> At(props, idxs[k])]

\* mutant: every sampled proposal is given the fields of the first target
SampledTargets_First(matched_idxs, idxs) == [k \in 1..Len(idxs) |-> 0]

\* roi_heads.py:291  sampled_targets = matched_idxs[sampled_idxs]
SampledTargets(matched_idxs, idxs) == [k \in 1..Len(idxs) |-> At(matched_idxs, idxs[k])]

\* roi_heads.py:298-299  trg_value[sampled_targets]
CopyField(trg_value, sampled_targets) ==
    [k \in 1..Len(sampled_targets) |-> At(trg_value, sampled_targets[k])]

\* roi_heads.py:290-305  the gt_boxes field of the sampled proposals
SampledGtBoxes(tgts, matched_idxs, idxs) ==
    IF Len(tgts) > 0
    THEN CopyField(GtBoxes(tgts), SampledTargets(matched_idxs, idxs))
    ELSE [k \in 1..Len(idxs) |-> ZeroBox]

GtMasks(tgts) == [j \in 1..Len(tgts) |-> tgts[j].gt_masks]

\* roi_heads.py:285-305  the fields of the sampled proposals of one image: gt_classes
\* is set first (line 286); with targets every other gt_ field of the targets is
\* copied (lines 296-299); without, gt_boxes alone is made up (lines 301-305)
LabeledFields(props, tgts, matched_idxs, s) ==
    IF Len(tgts) > 0
    THEN [proposal_boxes |-> SliceProposals(props, s.sampled_idxs),
          gt_classes |-> s.gt_classes,
          gt_boxes |-> SampledGtBoxes(tgts, matched_idxs, s.sampled_idxs),
          gt_masks |-> CopyField(GtMasks(tgts), SampledTargets(matched_idxs, s.sampled_idxs))]
    ELSE [proposal_boxes |-> SliceProposals(props, s.sampled_idxs),
          gt_classes |-> s.gt_classes,
          gt_boxes |-> SampledGtBoxes(tgts, matched_idxs, s.sampled_idxs)]

\* mutant: the gathered classes are a view of the targets' gt_classes, so the
\* overwrites of lines 211-215 land in the targets
TargetsAfter_View(tgts, matched_idxs, labels) ==
    [j \in 1..Len(tgts) |->
        IF \E p \in 1..Len(matched_idxs) : matched_idxs[p] = j - 1
        THEN [tgts[j] EXCEPT !.gt_classes =
                 labels[CHOOSE p \in 1..Len(matched_idxs) : matched_idxs[p] = j - 1]]
        ELSE tgts[j]]

\* roi_heads.py:209-215, 291-299  the targets once the image is labeled:
\* gt_classes[matched_idxs] and trg_value[sampled_targets] index by a tensor, which
\* makes new tensors; the overwrites of lines 211-215 are applied to the new one
TargetsAfter(tgts, matched_idxs, labels) == tgts

\* roi_heads.py:285-286  the candidate set once the image is labeled:
\* proposals_per_image[sampled_idxs] is a new set, bound to the loop variable,
\* and gt_classes and the other gt_ fields are set on the new set
CandidatesAfter(props, sampled_idxs) == [proposal_boxes |-> props, fields |-> {"proposal_boxes"}]

\* roi_heads.py:274-310  one iteration of the loop over the images
ImageResults(props, tgts, f, nc, bs, pf, thr) ==
    LET mi == MatchedIdxs(tgts, props)
        ml == MatchedLabels(tgts, props, thr)
    IN  {[out |-> LabeledFields(props, tgts, mi, s),
          loc |-> [matched_idxs |-> mi, matched_labels |-> ml, labels |-> s.labels,
                   sampled_fg_idxs |-> s.sampled_fg_idxs,
                   sampled_bg_idxs |-> s.sampled_bg_idxs,
                   sampled_idxs |-> s.sampled_idxs,
                   targets_after |-> TargetsAfter(tgts, mi, s.labels),
                   candidates_after |-> CandidatesAfter(props, s.sampled_idxs)]] :
            s \in sample_proposals(mi, ml, GtClasses(tgts), f, nc, bs, pf)}

\* roi_heads.py:273  zip(proposals, targets) stops at the shorter list
ZipLen(ps, ts) == Min(Len(ps), Len(ts))

\* mutant: the ground-truth boxes are never appended
AugmentedProposals_Off(ps, ts, append) == ps

\* roi_heads.py:266-267  add_ground_truth_to_proposals over the batch
AugmentedProposals(ps, ts, append) ==
    IF append THEN [i \in 1..Len(ps) |-> AppendGt(GtBoxes(ts[i]), ps[i])] ELSE ps

\* mutant: each image's result is put in front of the earlier ones
RECURSIVE LoopResults_Reversed(_, _, _, _, _, _, _, _)
LoopResults_Reversed(ps, ts, i, f, nc, bs, pf, thr) ==
    IF i > ZipLen(ps, ts) THEN {<<>>}
    ELSE {rest \o <<r>> : r \in ImageResults(ps[i], ts[i], f, nc, bs, pf, thr),
                          rest \in LoopResults_Reversed(ps, ts, i + 1, f, nc, bs, pf, thr)}

\* roi_heads.py:269-310  every list of per-image results of the loop, from image i on
RECURSIVE LoopResults(_, _, _, _, _, _, _, _)
LoopResults(ps, ts, i, f, nc, bs, pf, thr) ==
    IF i > ZipLen(ps, ts) THEN {<<>>}
    ELSE {<<r>> \o rest : r \in ImageResults(ps[i], ts[i], f, nc, bs, pf, thr),
                          rest \in LoopResults(ps, ts, i + 1, f, nc, bs, pf, thr)}

\* roi_heads.py:226-317
label_and_sample_proposals(ps, ts, f) ==
    /\ in_proposals' = ps
    /\ in_targets' = ts
    /\ in_filter' = f
    /\ IF proposal_append_gt /\ Len(ps) # Len(ts)
       THEN /\ phase' = "error"
            /\ out' = <<>>
            /\ locals' = <<>>
       ELSE \E run \in LoopResults(AugmentedProposals(ps, ts, proposal_append_gt), ts, 1, f,
                                   num_classes, batch_size_per_image,
                                   positive_sample_fraction, iou_thresholds) :
                /\ phase' = "done"
                /\ out' = [i \in 1..Len(run) |-> run[i].out]
                /\ locals' = [i \in 1..Len(run) |-> run[i].loc]
    /\ UNCHANGED <<cfgvars, hvars, mvars>>

(* ------------------------- TripleBranchROIHeads ------------------------ *)
\* a cfg node either lacks the attribute or holds a boolean
Attr == {"absent", "true", "false"}

Cfgs ==
    [FOR_NUCLEI : Attr, PURE_BRANCH : Attr, RPN_ATTENTION : Attr, BRANCH_GUIDANCE : Attr,
     HEADS_ATTENTION : Attr, REFINEMENT : Attr, CONSIS_LOSS : BOOLEAN,
     CONSIS_LOSS_MODE : {"MX", "other"}]

\* the attribute values before __init__ has assigned them
NoFlags ==
    [cfg_for_nuclei |-> "absent", for_nuclei |-> FALSE, pure_branch |-> FALSE,
     rpn_attention_tb |-> FALSE, branch_guidance |-> FALSE, heads_attention |-> FALSE,
     refinement |-> TRUE, consis_loss |-> FALSE, consis_loss_mode |-> "MX"]

\* roi_heads.py:1412-1424  x = False; if hasattr(cfg, X): x = cfg.X
FlagOrFalse(a) == a = "true"

\* roi_heads.py:1425-1427  refinement = True; if hasattr(cfg, REFINEMENT): refinement = cfg.REFINEMENT
FlagOrTrue(a) == a # "false"

\* roi_heads.py:1404-1406  for_nuclei = False; if hasattr(cfg, FOR_NUCLEI): for_nuclei = True
HasAttr(a) == a # "absent"

\* roi_heads.py:1395-1427  the flags __init__ assigns from cfg
FlagsOf(c) ==
    [cfg_for_nuclei |-> c.FOR_NUCLEI, for_nuclei |-> HasAttr(c.FOR_NUCLEI),
     pure_branch |-> FlagOrFalse(c.PURE_BRANCH),
     rpn_attention_tb |-> FlagOrFalse(c.RPN_ATTENTION),
     branch_guidance |-> FlagOrFalse(c.BRANCH_GUIDANCE),
     heads_attention |-> FlagOrFalse(c.HEADS_ATTENTION),
     refinement |-> FlagOrTrue(c.REFINEMENT),
     consis_loss |-> c.CONSIS_LOSS, consis_loss_mode |-> c.CONSIS_LOSS_MODE]

\* mutant: the assertion is dropped
RefinementAssert_Dropped(refinement, branch_guidance) == TRUE

\* roi_heads.py:1428-1429  if not self.refinement: assert self.branch_guidance
RefinementAssert(refinement, branch_guidance) == refinement \/ branch_guidance

\* no forward invocation in progress
IdleFw ==
    [pc |-> "idle", training |-> FALSE, finite |-> TRUE, reported |-> FALSE,
     label_called |-> FALSE, label_filter |-> -1, instances |-> "none",
     feat_over |-> <<>>, feat_nonover |-> <<>>, trace |-> <<>>, losses |-> <<>>,
     defined |-> {}, result |-> "none", targets_empty |-> <<>>]

\* what one invocation did and returned: whether and how it labeled, the branch
\* calls in order, the loss updates, the proposals its mask branches got, and
\* the kind of result
Outcome(f) ==
    [label_called |-> f.label_called, label_filter |-> f.label_filter,
     trace |-> f.trace, losses |-> f.losses, instances |-> f.instances,
     result |-> f.result]

\* no invocation is kept for comparison
NoRef == [kept |-> FALSE, training |-> FALSE, targets_empty |-> <<>>, finite |-> TRUE,
          marker |-> FALSE, outcome |-> <<>>]

\* no invocation has got to its mask branches yet
NoRoutes == [train |-> <<>>, infer |-> <<>>]

\* roi_heads.py:1393-1457  TripleBranchROIHeads.__init__
Construct(c) ==
    /\ head = "none"
    /\ flags' = FlagsOf(c)
    /\ head' = IF RefinementAssert(FlagsOf(c).refinement, FlagsOf(c).branch_guidance)
               THEN "ok" ELSE "failed"
    /\ UNCHANGED <<unlabeled, fw, routes, ref, cfgvars, lvars, mvars>>

\* the pooled ROI features (mask_pooler, roi_heads.py:1793 / 1679)
F0 == <<"F0">>

\* roi_heads.py:1805-1806 / 1684-1685  torch.cat([mask_features] + [inner feature], 1)
GuidanceConcat == <<"cat", "F0", "G">>

\* roi_heads.py:1807-1810 / 1686-1689  for layer in stack: out = layer(x)
RECURSIVE LayerLoop(_, _, _, _)
LayerLoop(layers, x, outp, i) ==
    IF i > Len(layers) THEN outp ELSE LayerLoop(layers, x, <<layers[i]>> \o x, i + 1)

\* roi_heads.py:1432-1444  the three overlap guidance layers
OverlapLayers == <<"conv_overlap_layer0", "conv_overlap_layer1", "conv_overlap_layer2">>

\* roi_heads.py:1445-1457  the three non-overlap guidance layers
NonOverlapLayers == <<"conv_non_overlap_layer0", "conv_non_overlap_layer1", "conv_non_overlap_layer2">>

\* roi_heads.py:1820 / 1693  mask_features * triple_branch_whole_mask_attention
AttentionProduct == <<"mul", "F0", "A">>

\* one executed branch
Ran(stage, inp, guiding) == [stage |-> stage, inp |-> inp, guiding |-> guiding]

\* one losses.update(...)
Loss(key, src, w) == [key |-> key, src |-> src, w |-> w]

\* mutant: the non-overlap branch is called before the overlap branch
StageAfter_Swapped(pc, training) ==
    CASE pc = "health" -> "box"
      [] pc = "box" -> "pre"
      [] pc = "pre" -> "nonoverlap"
      [] pc = "nonoverlap" -> "overlap"
      [] pc = "overlap" -> "refine"
      [] pc = "refine" -> IF training THEN "guidance_consistency" ELSE "return"
      [] pc = "guidance_consistency" -> "consistency"
      [] pc = "consistency" -> "return"
      [] OTHER -> "done"

\* roi_heads.py:1770-1906, 1677-1723  the order of the blocks of forward
StageAfter(pc, training) ==
    CASE pc = "health" -> "box"
      [] pc = "box" -> "pre"
      [] pc = "pre" -> "overlap"
      [] pc = "overlap" -> "nonoverlap"
      [] pc = "nonoverlap" -> "refine"
      [] pc = "refine" -> IF training THEN "guidance_consistency" ELSE "return"
      [] pc = "guidance_consistency" -> "consistency"
      [] pc = "consistency" -> "return"
      [] OTHER -> "done"

Advance(f) == [f EXCEPT !.pc = StageAfter(f.pc, f.training)]

\* an unbound local is read: the invocation ends with an exception
Raise(f) == [f EXCEPT !.pc = "done", !.result = "error"]

\* roi_heads.py:1761-1767  the filter_out_class forward passes to the labeler
ForwardFilter(fl) == IF fl.for_nuclei THEN 0 ELSE IF fl.rpn_attention_tb THEN 1 ELSE -1

\* mutant: the batch counts as unlabeled only when no image has a target
IsUnlabeled_AllEmpty(empties) == \A i \in 1..Len(empties) : empties[i]

\* roi_heads.py:1758  self.unlabeled = (len(targets[0]) == 0)
IsUnlabeled(empties) == empties[1]

\* roi_heads.py:1756-1768  forward is entered in training or inference mode; in
\* training each image's target set is empty or not (empties, one flag per
\* image; inference has no targets); the feature maps are finite or not
ForwardEnter(tr, empties, fin) ==
    /\ head = "ok"
    /\ fw.pc \in {"idle", "done"}
    /\ unlabeled' = IF tr THEN IsUnlabeled(empties) ELSE unlabeled
    /\ fw' = [IdleFw EXCEPT !.pc = "health", !.training = tr, !.finite = fin,
                            !.targets_empty = IF tr THEN empties ELSE <<>>,
                            !.label_called = tr /\ ~unlabeled',
                            !.label_filter = IF tr /\ ~unlabeled' THEN ForwardFilter(flags) ELSE -1,
                            !.result = "pending"]
    /\ UNCHANGED <<head, flags, routes, ref, cfgvars, lvars, mvars>>

\* mutant: a non-finite feature map ends the invocation
AfterHealth_Fatal(f) == IF f.finite THEN Advance(f) ELSE Raise([f EXCEPT !.reported = TRUE])

\* roi_heads.py:1772-1775  a non-finite feature map is printed, nothing else
AfterHealth(f) == Advance([f EXCEPT !.reported = ~f.finite])

\* roi_heads.py:1770-1775  the finite-ness check of the feature maps
HealthCheck ==
    /\ fw.pc = "health"
    /\ fw' = AfterHealth(fw)
    /\ UNCHANGED <<head, flags, unlabeled, routes, ref, cfgvars, lvars, mvars>>

\* mutant: the marker left by the last training step is read in inference too
SkipsBox_Stale(tr, unl) == unl

\* roi_heads.py:1777-1788  the box branch and the foreground selection are skipped
\* in training when self.unlabeled
SkipsBox(tr, unl) == tr /\ unl

\* roi_heads.py:1777-1793 (training), 1896 and 1672-1679 (inference)
BoxStage ==
    /\ fw.pc = "box"
    /\ fw' = Advance(
         IF SkipsBox(fw.training, unlabeled)
         THEN [fw EXCEPT !.instances = "all_proposals"]
         ELSE IF fw.training
         THEN [fw EXCEPT !.trace = Append(@, Ran("BOX", <<"features">>, FALSE)),
                         !.losses = Append(@, Loss("box_losses", "BOX", <<1, 1>>)),
                         !.instances = "foreground_proposals"]
         ELSE [fw EXCEPT !.trace = Append(@, Ran("BOX", <<"features">>, FALSE)),
                         !.instances = "predicted_instances"])
    /\ UNCHANGED <<head, flags, unlabeled, routes, ref, cfgvars, lvars, mvars>>

\* roi_heads.py:1799-1800, 1812-1813  the preliminary whole-mask call in training
TrainPreCall == Ran("MASK_WHOLE_PRE", F0, FALSE)

\* roi_heads.py:1682-1683, 1691-1692  the preliminary whole-mask call in inference
InferPreCall == Ran("MASK_WHOLE_PRE", F0, FALSE)

\* roi_heads.py:1798-1855  the features the overlap and the non-overlap branch are
\* called with in training
TrainBranchInputs(fl) ==
    IF fl.branch_guidance
    THEN [over |-> LayerLoop(OverlapLayers, GuidanceConcat, <<>>, 1),
          nonover |-> LayerLoop(NonOverlapLayers, GuidanceConcat, <<>>, 1)]
    ELSE IF fl.heads_attention
    THEN [over |-> AttentionProduct, nonover |-> AttentionProduct]
    ELSE [over |-> F0, nonover |-> F0]

\* mutant: in inference the attention product reaches the overlap branch only
InferBranchInputs_HalfAttention(fl) ==
    IF fl.branch_guidance
    THEN [over |-> LayerLoop(OverlapLayers, GuidanceConcat, <<>>, 1),
          nonover |-> LayerLoop(NonOverlapLayers, GuidanceConcat, <<>>, 1)]
    ELSE IF fl.heads_attention
    THEN [over |-> AttentionProduct, nonover |-> F0]
    ELSE [over |-> F0, nonover |-> F0]

\* roi_heads.py:1681-1708  the same in inference
InferBranchInputs(fl) ==
    IF fl.branch_guidance
    THEN [over |-> LayerLoop(OverlapLayers, GuidanceConcat, <<>>, 1),
          nonover |-> LayerLoop(NonOverlapLayers, GuidanceConcat, <<>>, 1)]
    ELSE IF fl.heads_attention
    THEN [over |-> AttentionProduct, nonover |-> AttentionProduct]
    ELSE [over |-> F0, nonover |-> F0]

\* mutant: the guidance loss is added unscaled, as the attention loss is
PreLossWeight_Unscaled(fl) == <<1, 1>>

\* roi_heads.py:1802, 1814  the factor on the preliminary whole-mask loss: 0.75
\* under branch_guidance; under heads_attention the scaling is commented out
PreLossWeight(fl) == IF fl.branch_guidance THEN <<3, 4>> ELSE <<1, 1>>

\* roi_heads.py:1798-1822 (training), 1681-1695 (inference)
PreStage ==
    /\ fw.pc = "pre"
    /\ fw' = Advance(
         IF fw.training
         THEN IF flags.branch_guidance \/ flags.heads_attention
              THEN [fw EXCEPT
                      !.trace = Append(@, TrainPreCall),
                      !.losses = IF ~unlabeled
                                 THEN Append(@, Loss("whole_mask_losses", "MASK_WHOLE_PRE",
                                                     PreLossWeight(flags)))
                                 ELSE @,
                      !.defined = IF flags.branch_guidance
                                  THEN @ \cup {"whole_attention_mask_logits"} ELSE @,
                      !.feat_over = TrainBranchInputs(flags).over,
                      !.feat_nonover = TrainBranchInputs(flags).nonover]
              ELSE [fw EXCEPT !.feat_over = TrainBranchInputs(flags).over,
                              !.feat_nonover = TrainBranchInputs(flags).nonover]
         ELSE IF flags.branch_guidance \/ flags.heads_attention
              THEN [fw EXCEPT !.trace = Append(@, InferPreCall),
                              !.feat_over = InferBranchInputs(flags).over,
                              !.feat_nonover = InferBranchInputs(flags).nonover]
              ELSE [fw EXCEPT !.feat_over = InferBranchInputs(flags).over,
                              !.feat_nonover = InferBranchInputs(flags).nonover])
    /\ UNCHANGED <<head, flags, unlabeled, routes, ref, cfgvars, lvars, mvars>>

\* roi_heads.py:1826-1831, 1842-1847 (training), 1698-1699, 1704-1705 (inference)
OverlapStage ==
    /\ fw.pc = "overlap"
    /\ fw' = Advance(
         [fw EXCEPT !.trace = Append(@, Ran("MASK_OVERLAP", fw.feat_over, FALSE)),
                    !.losses = IF fw.training /\ ~unlabeled
                               THEN Append(@, Loss("overlap_mask_losses", "MASK_OVERLAP", <<1, 1>>))
                               ELSE @,
                    !.defined = @ \cup {"overlapping_mask_logits"}])
    /\ UNCHANGED <<head, flags, unlabeled, routes, ref, cfgvars, lvars, mvars>>

\* roi_heads.py:1834-1839, 1850-1855 (training), 1701-1702, 1707-1708 (inference)
NonOverlapStage ==
    /\ fw.pc = "nonoverlap"
    /\ fw' = Advance(
         [fw EXCEPT !.trace = Append(@, Ran("MASK_NONOVERLAP", fw.feat_nonover, FALSE)),
                    !.losses = IF fw.training /\ ~unlabeled
                               THEN Append(@, Loss("nonoverlap_mask_losses", "MASK_NONOVERLAP", <<1, 1>>))
                               ELSE @,
                    !.defined = @ \cup {"nonoverlapping_mask_logits"}])
    /\ UNCHANGED <<head, flags, unlabeled, routes, ref, cfgvars, lvars, mvars>>

\* mutant: the concatenation puts the non-overlap feature before the overlap one
RefinementConcat_Swapped == <<"cat", "F0", "nonoverlap_inner", "overlap_inner">>

\* roi_heads.py:1864-1866 / 1715-1717  cat of F0 and both inner features
RefinementConcat == <<"cat", "F0", "overlap_inner", "nonoverlap_inner">>

\* roi_heads.py:1858-1869  the final whole-mask call in training (guiding_layers
\* defaults to True, roi_heads.py:1541-1542)
TrainRefineCall(fl) ==
    IF fl.pure_branch THEN Ran("MASK_WHOLE_FINAL", F0, FALSE)
    ELSE Ran("MASK_WHOLE_FINAL", RefinementConcat, TRUE)

\* mutant: in inference the pure branch is called with its guiding layers on
InferRefineCall_Guided(fl) ==
    IF fl.pure_branch THEN Ran("MASK_WHOLE_FINAL", F0, TRUE)
    ELSE Ran("MASK_WHOLE_FINAL", RefinementConcat, TRUE)

\* roi_heads.py:1711-1720  the final whole-mask call in inference
InferRefineCall(fl) ==
    IF fl.pure_branch THEN Ran("MASK_WHOLE_FINAL", F0, FALSE)
    ELSE Ran("MASK_WHOLE_FINAL", RefinementConcat, TRUE)

\* the calls of the mask branches so far (the box branch is not one)
MaskCalls(trace) == SelectSeq(trace, LAMBDA r : r.stage # "BOX")

RefineDone(f) ==
    IF ~flags.refinement THEN f
    ELSE IF f.training
    THEN [f EXCEPT
            !.trace = Append(@, TrainRefineCall(flags)),
            \* line 1861 updates losses whatever self.unlabeled is; 1870-1873 follow
            !.losses = IF flags.pure_branch
                       THEN IF unlabeled
                            THEN Append(@, Loss("whole_mask_losses", "MASK_WHOLE_FINAL", <<1, 1>>))
                            ELSE Append(Append(@, Loss("whole_mask_losses", "MASK_WHOLE_FINAL", <<1, 1>>)),
                                        Loss("whole_mask_losses", "MASK_WHOLE_FINAL", <<1, 1>>))
                       ELSE IF ~unlabeled
                            THEN Append(@, Loss("whole_mask_losses", "MASK_WHOLE_FINAL", <<1, 1>>))
                            ELSE @,
            !.defined = @ \cup {"whole_mask_logits"}]
    ELSE [f EXCEPT !.trace = Append(@, InferRefineCall(flags)),
                   !.defined = @ \cup {"whole_mask_logits"}]

\* roi_heads.py:1857-1873 (training), 1710-1720 (inference)
RefineStage ==
    /\ fw.pc = "refine"
    /\ fw' = Advance(RefineDone(fw))
    /\ routes' = IF fw.training
                 THEN [routes EXCEPT !.train = MaskCalls(RefineDone(fw).trace)]
                 ELSE [routes EXCEPT !.infer = MaskCalls(RefineDone(fw).trace)]
    /\ UNCHANGED <<head, flags, unlabeled, ref, cfgvars, lvars, mvars>>

\* roi_heads.py:1875-1878  the unlabeled guidance-consistency term
GuidanceConsistencyStage ==
    /\ fw.pc = "guidance_consistency"
    /\ fw' = IF flags.branch_guidance /\ unlabeled
             THEN IF "whole_mask_logits" \in fw.defined
                  THEN Advance([fw EXCEPT !.losses =
                         Append(@, Loss("branch_guidance_consistency_loss",
                                        "GUIDANCE_CONSISTENCY", <<1, 10>>))])
                  ELSE Raise(fw)
             ELSE Advance(fw)
    /\ UNCHANGED <<head, flags, unlabeled, routes, ref, cfgvars, lvars, mvars>>

\* roi_heads.py:1880-1891  the branch-consistency term
ConsistencyStage ==
    /\ fw.pc = "consistency"
    /\ fw' = IF ~flags.consis_loss THEN Advance(fw)
             ELSE IF flags.consis_loss_mode = "MX"
             THEN IF "whole_mask_logits" \in fw.defined
                  THEN Advance([fw EXCEPT
                         !.trace = Append(@, Ran("CONSISTENCY", <<"whole", "nonoverlap", "overlap">>, FALSE)),
                         !.defined = @ \cup {"consistency_loss"},
                         !.losses = Append(@, Loss("loss_triple_branch_consistency",
                                                   "CONSISTENCY", <<1, 800>>))])
                  ELSE Raise(fw)
             \* line 1891 reads triple_branch_consistency_loss, bound only in mode "MX"
             ELSE Raise(fw)
    /\ UNCHANGED <<head, flags, unlabeled, routes, ref, cfgvars, lvars, mvars>>

\* roi_heads.py:1892-1894 (training), 1721-1723 and 1899-1906 (inference)
ReturnStage ==
    /\ fw.pc = "return"
    /\ fw' = IF flags.rpn_attention_tb /\ "whole_mask_logits" \notin fw.defined
             THEN Raise(fw)
             ELSE [fw EXCEPT !.pc = "done",
                             !.result = IF fw.training THEN "losses" ELSE "instances"]
    /\ UNCHANGED <<head, flags, unlabeled, routes, ref, cfgvars, lvars, mvars>>

(* ------------------- the "MX" consistency term ------------------------- *)
\* mask logits, one per pixel of the selected instances: below, at and above 0
Logits == {-1, 0, 1}

\* roi_heads.py:1882  (x.sigmoid() > 0.5).float(): sigmoid(x) > 0.5 exactly when x > 0
Binarize(x) == IF x > 0 THEN 1 ELSE 0

\* roi_heads.py:1883-1885  a.logical_xor(b).float()
LogicalXor(a, b) == IF a # b THEN 1 ELSE 0

\* F.binary_cross_entropy clamps its logarithms at -100; on a bit: log 1 = 0, log 0 -> -100
ClampedLog(x) == IF x = 1 THEN 0 ELSE -100

\* roi_heads.py:1739-1740  the cross-entropy of one pixel, input x against target t
PixelBCE(x, t) == 0 - (t * ClampedLog(x) + (1 - t) * ClampedLog(1 - x))

RECURSIVE SumSeq(_)
SumSeq(q) == IF q = <<>> THEN 0 ELSE Head(q) + SumSeq(Tail(q))

\* reduction="mean": the sum over the number of elements, <<sum, count>>; over an
\* empty tensor this is 0 / 0, which is not a number
Mean(q) == <<SumSeq(q), Len(q)>>

\* roi_heads.py:1883-1885  triple_branch_addition_mask_loss_input
AdditionInput(overlapping, nonoverlapping) ==
    [k \in 1..Len(overlapping) |->
        LogicalXor(Binarize(nonoverlapping[k]), Binarize(overlapping[k]))]

\* roi_heads.py:1882  triple_branch_main_mask_loss_input
MainInput(whole) == [k \in 1..Len(whole) |-> Binarize(whole[k])]

\* roi_heads.py:1725-1741  binary_cross_entropy(input = addition, target = main), mean
cal_triple_branch_consistency_loss(main, addition) ==
    Mean([k \in 1..Len(main) |-> PixelBCE(addition[k], main[k])])

\* roi_heads.py:1886-1889  the term times 0.00125 = 1 / 800, as <<numerator, denominator>>
MxTerm(whole, overlapping, nonoverlapping) ==
    LET l == cal_triple_branch_consistency_loss(MainInput(whole),
                                                AdditionInput(overlapping, nonoverlapping))
    IN  <<l[1], l[2] * 800>>

\* roi_heads.py:1880-1889  the term is evaluated on the logits of the three branches
MxEvaluate ==
    /\ mx.pc = "input"
    /\ mx' = [mx EXCEPT !.pc = "done",
                        !.loss = MxTerm(mx.whole, mx.overlapping, mx.nonoverlapping)]
    /\ UNCHANGED <<cfgvars, lvars, hvars, sel>>

\* the same evaluation with the overlap and the non-overlap logits exchanged
MxEvaluateSwapped ==
    /\ mx.pc = "done"
    /\ mx' = [mx EXCEPT !.pc = "swapped",
                        !.overlapping = mx.nonoverlapping,
                        !.nonoverlapping = mx.overlapping,
                        !.prev_loss = mx.loss,
                        !.loss = MxTerm(mx.whole, mx.nonoverlapping, mx.overlapping)]
    /\ UNCHANGED <<cfgvars, lvars, hvars, sel>>

\* filter_out_class values: -1 (disabled) and the class ids of the head
FilterClasses(nc) == -1..(nc - 1)

(* ---------------------------- specifications -------------------------- *)
\* ROIHeads.__init__ (roi_heads.py:155-182): the configuration is read once
NoHead ==
    /\ head = "none"
    /\ flags = NoFlags
    /\ unlabeled = FALSE
    /\ fw = IdleFw
    /\ routes = NoRoutes
    /\ ref = NoRef

IdleLabeler ==
    /\ NoHead
    /\ in_proposals = <<>>
    /\ in_targets = <<>>
    /\ in_filter = -1
    /\ phase = "idle"
    /\ out = <<>>
    /\ locals = <<>>

(* --------------------- select_foreground_proposals --------------------- *)
\* a proposal that label_and_sample_proposals has labeled: its box and its class
\* (-1 ignored, 0..MaxClasses-1 a class, larger values a background label)
LabeledProposals ==
    {[proposal_boxes |-> b, gt_classes |-> c] : b \in {x \in Boxes : x[1] = 0}, c \in IgnoreLabel..MaxClasses}

\* the first argument: no image, or up to MaxImages labeled sets of up to
\* MaxProposals proposals, MaxProposals + 1 in all
LabeledLists ==
    {ps \in SeqsUpTo(SeqsUpTo(LabeledProposals, MaxProposals), MaxImages) : SumLen(ps) <= MaxProposals + 1}

\* mutant: only the background label is masked out
FgSelectionMask_IgnoreKept(gt_classes, bg_label) ==
    [p \in 1..Len(gt_classes) |-> gt_classes[p] # bg_label]

\* roi_heads.py:91  fg_selection_mask = (gt_classes != -1) & (gt_classes != bg_label)
FgSelectionMask(gt_classes, bg_label) ==
    [p \in 1..Len(gt_classes) |-> gt_classes[p] # -1 /\ gt_classes[p] # bg_label]

\* roi_heads.py:92  fg_selection_mask.nonzero().squeeze(1): the 0-based indices of
\* the true entries, ascending
RECURSIVE Nonzero(_)
Nonzero(mask) ==
    IF mask = <<>> THEN <<>>
    ELSE LET n == Len(mask)
             front == Nonzero(SubSeq(mask, 1, n - 1))
         IN  IF mask[n] THEN Append(front, n - 1) ELSE front

\* roi_heads.py:93  proposals_per_image[fg_idxs]: a new set holding the indexed rows
IndexInstances(props, idxs) == [k \in 1..Len(idxs) |-> At(props, idxs[k])]

\* roi_heads.py:89-94  the loop over the images builds the two lists from new
\* tensors and new sets; no statement writes to an element of proposals
RECURSIVE SelectLoop(_, _)
SelectLoop(proposals, bg_label) ==
    IF proposals = <<>> THEN [fg_proposals |-> <<>>, fg_selection_masks |-> <<>>]
    ELSE LET n == Len(proposals)
             done == SelectLoop(SubSeq(proposals, 1, n - 1), bg_label)
             gt_classes == [p \in 1..Len(proposals[n]) |-> proposals[n][p].gt_classes]
             fg_selection_mask == FgSelectionMask(gt_classes, bg_label)
             fg_idxs == Nonzero(fg_selection_mask)
         IN  [fg_proposals |-> Append(done.fg_proposals, IndexInstances(proposals[n], fg_idxs)),
              fg_selection_masks |-> Append(done.fg_selection_masks, fg_selection_mask)]

\* roi_heads.py:67-96  select_foreground_proposals; proposals[0] of the asserts at
\* lines 85-87 fails on a list of no image
select_foreground_proposals(proposals, bg_label) ==
    IF Len(proposals) = 0
    THEN [pc |-> "error", proposals |-> proposals, bg_label |-> bg_label,
          fg_proposals |-> <<>>, fg_selection_masks |-> <<>>, proposals_after |-> proposals]
    ELSE [pc |-> "done", proposals |-> proposals, bg_label |-> bg_label,
          fg_proposals |-> SelectLoop(proposals, bg_label).fg_proposals,
          fg_selection_masks |-> SelectLoop(proposals, bg_label).fg_selection_masks,
          proposals_after |-> proposals]

\* select_foreground_proposals has not been called
IdleSel == [pc |-> "idle", proposals |-> <<>>, bg_label |-> 0, fg_proposals |-> <<>>,
            fg_selection_masks |-> <<>>, proposals_after |-> <<>>]

\* no consistency term has been evaluated
IdleMx ==
    [pc |-> "idle", whole |-> <<>>, overlapping |-> <<>>, nonoverlapping |-> <<>>,
     loss |-> <<>>, prev_loss |-> <<>>]

Init ==
    /\ num_classes \in 1..MaxClasses
    /\ batch_size_per_image \in 1..MaxBatch
    /\ positive_sample_fraction \in PositiveFractions
    /\ proposal_append_gt \in BOOLEAN
    /\ iou_thresholds \in IouThresholds
    /\ IdleLabeler
    /\ mx = IdleMx
    /\ sel = IdleSel

\* a training step on a batch of one image
LabelStep ==
    /\ phase = "idle"
    /\ \E p \in SeqsUpTo(Boxes, MaxProposals), f \in FilterClasses(num_classes) :
          \E t \in SeqsUpTo(Targets(num_classes), MaxTargets) :
              label_and_sample_proposals(<<p>>, <<t>>, f)

Next == LabelStep

Spec == Init /\ [][Next]_vars

\* batches of several images, lists of any two lengths
BatchInit ==
    /\ num_classes = MaxClasses
    /\ batch_size_per_image = MaxBatch
    /\ positive_sample_fraction \in PositiveFractions
    /\ proposal_append_gt \in BOOLEAN
    /\ iou_thresholds \in IouThresholds
    /\ IdleLabeler
    /\ mx = IdleMx
    /\ sel = IdleSel

BatchStep ==
    /\ phase = "idle"
    /\ \E ps \in ProposalLists, f \in {-1, 0} :
          \E ts \in TargetLists(num_classes) : label_and_sample_proposals(ps, ts, f)

BatchNext == BatchStep

BatchSpec == BatchInit /\ [][BatchNext]_vars

\* the end-to-end scenario: 3 targets of classes 0, 1, 2; 10 proposals at IoU 0.9
\* with target 0 and 5 proposals that overlap nothing
ScenarioTargets ==
    <<[gt_classes |-> 0, gt_boxes |-> <<0, 10>>, gt_masks |-> MaskOf(0, <<0, 10>>)],
      [gt_classes |-> 1, gt_boxes |-> <<20, 30>>, gt_masks |-> MaskOf(1, <<20, 30>>)],
      [gt_classes |-> 2, gt_boxes |-> <<40, 50>>, gt_masks |-> MaskOf(2, <<40, 50>>)]>>

ScenarioProposals == [k \in 1..15 |-> IF k <= 10 THEN <<0, 9>> ELSE <<60, 70>>]

\* thresholds 0.3 / 0.5, batch_size_per_image 8, positive_fraction 0.25
ScenarioInit ==
    /\ num_classes = 3
    /\ batch_size_per_image = 8
    /\ positive_sample_fraction = <<1, 4>>
    /\ proposal_append_gt \in BOOLEAN
    /\ iou_thresholds = <<30, 50>>
    /\ IdleLabeler
    /\ mx = IdleMx
    /\ sel = IdleSel

ScenarioStep ==
    /\ phase = "idle"
    /\ label_and_sample_proposals(<<ScenarioProposals>>, <<ScenarioTargets>>, -1)

ScenarioNext == ScenarioStep

ScenarioSpec == ScenarioInit /\ [][ScenarioNext]_vars

\* the head: construction from any cfg, then forward invocations one after another
HeadInit ==
    /\ num_classes = MaxClasses
    /\ batch_size_per_image = MaxBatch
    /\ positive_sample_fraction = <<1, 1>>
    /\ proposal_append_gt = TRUE
    /\ iou_thresholds = <<30, 50>>
    /\ IdleLabeler
    /\ mx = IdleMx
    /\ sel = IdleSel

HeadNext ==
    \/ \E c \in Cfgs : Construct(c)
    \/ \E tr \in BOOLEAN, fin \in BOOLEAN :
          \E empties \in NonEmptySeqsUpTo(BOOLEAN, MaxImages) : ForwardEnter(tr, empties, fin)
    \/ HealthCheck
    \/ BoxStage
    \/ PreStage
    \/ OverlapStage
    \/ NonOverlapStage
    \/ RefineStage
    \/ GuidanceConsistencyStage
    \/ ConsistencyStage
    \/ ReturnStage

HeadSpec == HeadInit /\ [][HeadNext]_vars

\* roi_heads.py:1892-1906  what forward returned is kept, with its arguments and
\* the value self.unlabeled had at its return, to compare the invocations after
\* it with
KeepReference ==
    /\ head = "ok"
    /\ fw.pc = "done"
    /\ ~ref.kept
    /\ ref' = [kept |-> TRUE, training |-> fw.training, targets_empty |-> fw.targets_empty,
               finite |-> fw.finite, marker |-> unlabeled, outcome |-> Outcome(fw)]
    /\ UNCHANGED <<head, flags, unlabeled, fw, routes, cfgvars, lvars, mvars>>

\* one head called step after step, training and inference mixed, on one image
\* with or without targets and on finite or non-finite feature maps
StepNext ==
    \/ \E c \in Cfgs : Construct(c)
    \/ \E tr \in BOOLEAN, fin \in BOOLEAN :
          \E empties \in NonEmptySeqsUpTo(BOOLEAN, 1) : ForwardEnter(tr, empties, fin)
    \/ HealthCheck
    \/ BoxStage
    \/ PreStage
    \/ OverlapStage
    \/ NonOverlapStage
    \/ RefineStage
    \/ GuidanceConsistencyStage
    \/ ConsistencyStage
    \/ ReturnStage
    \/ KeepReference

StepSpec == HeadInit /\ [][StepNext]_vars

\* the consistency term on every triple of logit tensors of one shape
MxInit ==
    /\ num_classes = MaxClasses
    /\ batch_size_per_image = MaxBatch
    /\ positive_sample_fraction = <<1, 1>>
    /\ proposal_append_gt = TRUE
    /\ iou_thresholds = <<30, 50>>
    /\ IdleLabeler
    /\ sel = IdleSel
    /\ \E n \in 0..MaxPixels :
          \E w \in [1..n -> Logits], o \in [1..n -> Logits], v \in [1..n -> Logits] :
              mx = [IdleMx EXCEPT !.pc = "input", !.whole = w, !.overlapping = o,
                                  !.nonoverlapping = v]

MxNext == MxEvaluate \/ MxEvaluateSwapped

MxSpec == MxInit /\ [][MxNext]_vars

\* roi_heads.py:67-96  one call of select_foreground_proposals
SelectCall(proposals, bg_label) ==
    /\ sel.pc = "idle"
    /\ sel' = select_foreground_proposals(proposals, bg_label)
    /\ UNCHANGED <<cfgvars, lvars, hvars, mx>>

SelectNext == \E proposals \in LabeledLists, bg_label \in 0..MaxClasses : SelectCall(proposals, bg_label)

\* select_foreground_proposals on every list of labeled sets and every bg_label
SelectSpec == HeadInit /\ [][SelectNext]_vars

(* ============================== claims =============================== *)
\* the pools as the sampling contract words them, over the label vector of image i
Positives(i) == {k \in 1..Len(locals[i].labels) : locals[i].labels[k] >= 0 /\ locals[i].labels[k] < num_classes}

Negatives(i) == {k \in 1..Len(locals[i].labels) : locals[i].labels[k] = num_classes}

NumFg(i) == Len(locals[i].sampled_fg_idxs)

NumBg(i) == Len(locals[i].sampled_bg_idxs)

\* round(n / d) as Python rounds (half to even), n >= 0, d > 0
Round(n, d) ==
    LET q == n \div d
        r == n % d
    IN  IF 2 * r < d THEN q
        ELSE IF 2 * r > d THEN q + 1
        ELSE IF q % 2 = 0 THEN q ELSE q + 1

C3_LabelExhaustive ==
    phase = "done" =>
        \A i \in 1..Len(out) :
            \A k \in 1..Len(out[i].gt_classes) :
                out[i].gt_classes[k] >= 0 /\ out[i].gt_classes[k] <= num_classes

\* C3 witness: proposals are returned from an image that has an ignore-labelled
\* proposal, with the filter remap enabled and applied
C3_Witness ==
    /\ phase = "done"
    /\ in_filter # -1
    /\ \E i \in 1..Len(out) :
          /\ Len(out[i].gt_classes) > 0
          /\ \E k \in 1..Len(locals[i].labels) : locals[i].labels[k] = -1
          /\ \E k \in 1..Len(locals[i].labels) :
                /\ locals[i].matched_labels[k] = 1
                /\ At(GtClasses(in_targets[i]), locals[i].matched_idxs[k]) = in_filter

\* C4: an image with zero targets returns gt_classes all equal to num_classes and
\* gt_boxes all zero, one box per sampled proposal, whatever filter_out_class is
C4_EmptyTargets ==
    phase = "done" =>
        \A i \in 1..Len(out) :
            Len(in_targets[i]) = 0 =>
                /\ \A k \in 1..Len(out[i].gt_classes) : out[i].gt_classes[k] = num_classes
                /\ Len(out[i].gt_boxes) = Len(locals[i].sampled_idxs)
                /\ Len(out[i].gt_boxes) = Len(out[i].proposal_boxes)
                /\ Len(out[i].gt_boxes) = Len(out[i].gt_classes)
                /\ \A k \in 1..Len(out[i].gt_boxes) : out[i].gt_boxes[k] = ZeroBox

\* C4 witness: an image without targets, proposals sampled from it, filter enabled
C4_Witness ==
    /\ phase = "done"
    /\ in_filter # -1
    /\ \E i \in 1..Len(out) : Len(in_targets[i]) = 0 /\ Len(out[i].gt_classes) > 1

\* C5 as stated: with filter_out_class = c # -1 no returned proposal has class c
\* (each proposal that resolved to c carries class 2 instead)
C5_FilterRemap ==
    (phase = "done" /\ in_filter # -1) =>
        \A i \in 1..Len(out) :
            \A k \in 1..Len(out[i].gt_classes) : out[i].gt_classes[k] # in_filter

\* the returned proposals of image i that are labelled foreground / background
OutFg(i) == {k \in 1..Len(out[i].gt_classes) : out[i].gt_classes[k] >= 0 /\ out[i].gt_classes[k] < num_classes}

OutBg(i) == {k \in 1..Len(out[i].gt_classes) : out[i].gt_classes[k] = num_classes}

\* C7 as stated: the scenario returns exactly 2 foreground and 6 background
\* samples, every foreground sample labelled class 0
C7_Original ==
    phase = "done" =>
        /\ Cardinality(OutFg(1)) = 2
        /\ Cardinality(OutBg(1)) = 6
        /\ \A k \in OutFg(1) : out[1].gt_classes[k] = 0

\* C7 (amended): the scenario returns exactly 2 foreground samples and 5
\* background samples (only 5 proposals are background, so 7 samples in all);
\* with proposal_append_gt off every foreground sample is labelled class 0, with
\* it on a foreground sample is one of the 10 proposals (class 0) or an appended
\* ground-truth box (class 0, 1 or 2)
C7_Scenario ==
    phase = "done" =>
        /\ Len(out) = 1
        /\ Cardinality(OutFg(1)) = 2
        /\ Cardinality(OutBg(1)) = 5
        /\ Len(out[1].gt_classes) = 7
        /\ ~proposal_append_gt => \A k \in OutFg(1) : out[1].gt_classes[k] = 0
        /\ \A k \in OutFg(1) :
              \/ out[1].gt_classes[k] = 0 /\ out[1].proposal_boxes[k] \in {<<0, 9>>, <<0, 10>>}
              \/ /\ proposal_append_gt
                 /\ \E j \in 1..Len(ScenarioTargets) :
                       /\ out[1].gt_classes[k] = ScenarioTargets[j].gt_classes
                       /\ out[1].proposal_boxes[k] = ScenarioTargets[j].gt_boxes

\* C7 witness: the scenario has run without ground-truth augmentation
C7_Witness ==
    /\ phase = "done"
    /\ ~proposal_append_gt
    /\ in_proposals = <<ScenarioProposals>>
    /\ Cardinality(OutFg(1)) = 2
    /\ Cardinality(OutBg(1)) = 5

\* C8 as stated: called with lists of different lengths, label_and_sample_proposals
\* fails; it never returns a result for them
C8_MismatchFails ==
    (phase # "idle" /\ Len(in_proposals) # Len(in_targets)) => phase = "error"

(* --------------------------- claims on the head ------------------------ *)
\* the stages the forward invocation has executed, in execution order
StagesRun == {fw.trace[i].stage : i \in 1..Len(fw.trace)}

Finished == head = "ok" /\ fw.pc = "done"

\* the sources of the entries of the loss mapping
LossSources == {fw.losses[i].src : i \in 1..Len(fw.losses)}

LossKeys == {fw.losses[i].key : i \in 1..Len(fw.losses)}

\* C6: constructing the head with refinement = false and branch_guidance = false
\* fails at construction, and every successfully constructed head has
\* refinement = true or branch_guidance = true.
C6_ConstructionInvariant ==
    /\ (head # "none" /\ ~flags.refinement /\ ~flags.branch_guidance) => head = "failed"
    /\ head = "ok" => (flags.refinement \/ flags.branch_guidance)

\* C6 witness: a construction with both flags off has been attempted and has failed
C6_Witness == head = "failed" /\ ~flags.refinement /\ ~flags.branch_guidance

\* C9: a training invocation whose first image has no targets returns a loss
\* mapping with no box loss and no per-branch mask loss (preliminary whole-mask,
\* overlap, non-overlap, final whole-mask), and with
\* branch_guidance_consistency_loss exactly when branch_guidance is active.
\* (The cross-branch term of consis_loss is not counted as a branch loss here.)
C9_UnlabeledShortCircuit ==
    (Finished /\ fw.training /\ unlabeled /\ fw.result = "losses") =>
        /\ LossSources \cap {"BOX", "MASK_WHOLE_PRE", "MASK_OVERLAP", "MASK_NONOVERLAP",
                             "MASK_WHOLE_FINAL"} = {}
        /\ ("branch_guidance_consistency_loss" \in LossKeys) <=> flags.branch_guidance

StageRank(st) ==
    CASE st = "BOX" -> 1
      [] st = "MASK_WHOLE_PRE" -> 2
      [] st = "MASK_OVERLAP" -> 3
      [] st = "MASK_NONOVERLAP" -> 4
      [] st = "MASK_WHOLE_FINAL" -> 5
      [] st = "CONSISTENCY" -> 6

\* no stage runs before one that precedes it, and none runs twice
InOrder ==
    \A i \in 1..Len(fw.trace), j \in 1..Len(fw.trace) :
        i < j => StageRank(fw.trace[i].stage) < StageRank(fw.trace[j].stage)

\* C10 as stated: in every forward invocation that completes, training or
\* inference, the stages run in the order BOX, preliminary whole-mask (iff
\* branch_guidance or heads_attention), overlap, non-overlap, final whole-mask
\* (iff refinement), consistency evaluation (iff consis_loss is enabled); none
\* runs out of order or twice.
C10_Original ==
    /\ InOrder
    /\ (Finished /\ fw.result # "error") =>
        /\ "BOX" \in StagesRun
        /\ ("MASK_WHOLE_PRE" \in StagesRun) <=> (flags.branch_guidance \/ flags.heads_attention)
        /\ "MASK_OVERLAP" \in StagesRun
        /\ "MASK_NONOVERLAP" \in StagesRun
        /\ ("MASK_WHOLE_FINAL" \in StagesRun) <=> flags.refinement
        /\ ("CONSISTENCY" \in StagesRun) <=> flags.consis_loss

\* C10 (amended): in every forward invocation the stages run in the order BOX
\* (in inference and in labeled training; skipped in unlabeled training),
\* preliminary whole-mask (iff branch_guidance or heads_attention), overlap,
\* non-overlap, final whole-mask (iff refinement), consistency evaluation (only
\* in training, iff consis_loss is enabled with mode "MX" and refinement is on;
\* never in inference); none runs out of order or twice.
C10_BranchOrder ==
    /\ InOrder
    /\ Finished =>
        /\ ("BOX" \in StagesRun) <=> ~(fw.training /\ unlabeled)
        /\ ("MASK_WHOLE_PRE" \in StagesRun) <=> (flags.branch_guidance \/ flags.heads_attention)
        /\ "MASK_OVERLAP" \in StagesRun
        /\ "MASK_NONOVERLAP" \in StagesRun
        /\ ("MASK_WHOLE_FINAL" \in StagesRun) <=> flags.refinement
        /\ ("CONSISTENCY" \in StagesRun) <=>
               (fw.training /\ flags.consis_loss /\ flags.consis_loss_mode = "MX"
                /\ flags.refinement)

\* C10 witness: a labeled training invocation has run all six stages and returned
C10_Witness ==
    /\ Finished
    /\ fw.training
    /\ ~unlabeled
    /\ fw.result = "losses"
    /\ Len(fw.trace) = 6
    /\ fw.trace[1].stage = "BOX"
    /\ fw.trace[6].stage = "CONSISTENCY"

(* --------------------- claims on the sampled order --------------------- *)
\* C11: in the index vector and the label vector _sample_proposals returns, the
\* k sampled foreground entries come first and the sampled background entries
\* follow: the first k indices are the sampler's positives with a foreground
\* label, the others its negatives with the background label, and no
\* background-labeled entry precedes a foreground-labeled one.
C11_ForegroundFirst ==
    phase = "done" =>
        \A i \in 1..Len(out) :
            LET k == NumFg(i)
                idxs == locals[i].sampled_idxs
                cls == out[i].gt_classes
            IN  /\ Len(idxs) = k + NumBg(i)
                /\ Len(cls) = Len(idxs)
                /\ \A p \in 1..Len(idxs) :
                      IF p <= k
                      THEN /\ idxs[p] = locals[i].sampled_fg_idxs[p]
                           /\ cls[p] >= 0 /\ cls[p] < num_classes
                      ELSE /\ idxs[p] = locals[i].sampled_bg_idxs[p - k]
                           /\ cls[p] = num_classes
                /\ \A p \in 1..Len(cls), q \in 1..Len(cls) :
                      (cls[p] = num_classes /\ cls[q] >= 0 /\ cls[q] < num_classes) => q < p

\* C11 witness: a returned sample holds a foreground entry and a background entry
C11_Witness ==
    /\ phase = "done"
    /\ \E i \in 1..Len(out) : NumFg(i) >= 1 /\ NumBg(i) >= 1

(* --------------------- claims on the consistency term ------------------ *)
\* the term is the number zero (0 / 0 is not a number)
IsZero(l) == l[2] # 0 /\ l[1] = 0

\* at every pixel the whole-mask bit equals overlap bit XOR non-overlap bit
BitsAgree ==
    \A k \in 1..Len(mx.whole) :
        Binarize(mx.whole[k]) =
            LogicalXor(Binarize(mx.overlapping[k]), Binarize(mx.nonoverlapping[k]))

\* C12: in mode "MX" the loss term is zero if and only if, at every pixel, the
\* binarized whole-mask logit equals the XOR of the binarized overlap and
\* non-overlap logits, and it is unchanged when the overlap and the non-overlap
\* logits are exchanged.
C12_MxConsistency ==
    /\ mx.pc \in {"done", "swapped"} => (IsZero(mx.loss) <=> BitsAgree)
    /\ mx.pc = "swapped" => mx.loss = mx.prev_loss

(* --------------------- claims on the head's routing -------------------- *)
\* C13: a head built with refinement = false and branch_guidance = true ends
\* every forward invocation (labeled or unlabeled training, inference, with or
\* without consis_loss and rpn_attention) by returning, the guidance-stage
\* whole-mask output standing in wherever a final whole-mask output is read:
\* no invocation ends on a read of the final whole-mask logits that were
\* never produced.
C13_RefinementDisabled ==
    (Finished /\ ~flags.refinement /\ flags.branch_guidance) =>
        fw.result # "error"

(* --------------------- claims on the labeled batch --------------------- *)
\* what image i alone determines: the proposal set the loop sees for it
OwnProposals(i) ==
    IF proposal_append_gt THEN in_proposals[i] \o GtBoxes(in_targets[i]) ELSE in_proposals[i]

\* every labeled set image i alone can give (one per random draw)
OwnResults(i) ==
    {r.out : r \in ImageResults(OwnProposals(i), in_targets[i], in_filter, num_classes,
                                batch_size_per_image, positive_sample_fraction,
                                iou_thresholds)}

\* C14: for a batch of images (one proposal set and one target set each),
\* label_and_sample_proposals returns exactly one labeled set per image, in the
\* order of the images, and the i-th is a result of labeling the i-th proposal
\* set against the i-th target set alone.
C14_OutputOrder ==
    (phase = "done" /\ Len(in_proposals) = Len(in_targets)) =>
        /\ Len(out) = Len(in_proposals)
        /\ \A i \in 1..Len(out) : out[i] \in OwnResults(i)

\* C14 witness: two different images have been labeled, with different results
C14_Witness ==
    /\ phase = "done"
    /\ Len(in_proposals) = 2
    /\ Len(in_targets) = 2
    /\ in_proposals[1] # in_proposals[2]
    /\ in_targets[1] # in_targets[2]
    /\ Len(out) = 2
    /\ out[1] # out[2]

\* C15: for an image with at least one target, every copied gt_ field of the
\* sampled proposal at output position k holds the target's value at index
\* matched_idxs[sampled_idxs[k]], and gt_classes holds the resolved label (not
\* the target's raw class); for an image without targets the only gt_ fields of
\* the output are gt_classes and the made-up gt_boxes.
C15_FieldPropagation ==
    phase = "done" =>
        \A i \in 1..Len(out) :
            LET idxs == locals[i].sampled_idxs
                mi == locals[i].matched_idxs
            IN  /\ \A k \in 1..Len(idxs) :
                      out[i].gt_classes[k] = At(locals[i].labels, idxs[k])
                /\ IF Len(in_targets[i]) > 0
                   THEN /\ DOMAIN out[i] = {"proposal_boxes", "gt_classes", "gt_boxes", "gt_masks"}
                        /\ \A k \in 1..Len(idxs) :
                              LET t == At(in_targets[i], At(mi, idxs[k]))
                              IN  /\ out[i].gt_boxes[k] = t.gt_boxes
                                  /\ out[i].gt_masks[k] = t.gt_masks
                   ELSE DOMAIN out[i] = {"proposal_boxes", "gt_classes", "gt_boxes"}

\* C15 witness: a sampled proposal carries the fields of the second target, and
\* another one a resolved label that is not its matched target's class
C15_Witness ==
    /\ phase = "done"
    /\ Len(out) = 1
    /\ Len(in_targets[1]) = 2
    /\ in_targets[1][1] # in_targets[1][2]
    /\ \E k \in 1..Len(out[1].gt_classes) :
          /\ At(locals[1].matched_idxs, locals[1].sampled_idxs[k]) = 1
          /\ out[1].gt_masks[k] = in_targets[1][2].gt_masks
    /\ \E k \in 1..Len(out[1].gt_classes) :
          out[1].gt_classes[k] #
              At(in_targets[1], At(locals[1].matched_idxs, locals[1].sampled_idxs[k])).gt_classes

\* the call of a mask branch in the finished invocation (at most one per stage)
CallOf(stage) == CHOOSE r \in Range(fw.trace) : r.stage = stage

\* layer3(layer2(layer1(x))): every layer applied to the output of the one before
Composed(layers, x) == <<layers[3], layers[2], layers[1]>> \o x

\* C16: with branch_guidance the overlap branch is called on the three overlap
\* conv layers applied in sequence to concat([F0, G]), and the non-overlap
\* branch on the three non-overlap layers applied in sequence to it: each of the
\* three layers of a stack contributes to the branch input.
C16_GuidanceStacks ==
    (Finished /\ flags.branch_guidance) =>
        /\ CallOf("MASK_OVERLAP").inp = Composed(OverlapLayers, GuidanceConcat)
        /\ CallOf("MASK_NONOVERLAP").inp = Composed(NonOverlapLayers, GuidanceConcat)

\* C17: with branch_guidance off and heads_attention on, the overlap and the
\* non-overlap branch are both called on F0 * A, A coming from the whole-mask
\* branch run on F0 with guiding_layers = false; with both flags off both are
\* called on F0 and no preliminary branch runs; with both on, branch_guidance
\* wins and no attention product reaches a branch.
C17_AttentionRouting ==
    Finished =>
        LET o == CallOf("MASK_OVERLAP").inp
            n == CallOf("MASK_NONOVERLAP").inp
        IN  /\ (~flags.branch_guidance /\ flags.heads_attention) =>
                  /\ o = <<"mul", "F0", "A">>
                  /\ n = <<"mul", "F0", "A">>
                  /\ CallOf("MASK_WHOLE_PRE") = Ran("MASK_WHOLE_PRE", <<"F0">>, FALSE)
            /\ (~flags.branch_guidance /\ ~flags.heads_attention) =>
                  /\ o = <<"F0">>
                  /\ n = <<"F0">>
                  /\ "MASK_WHOLE_PRE" \notin StagesRun
            /\ (flags.branch_guidance /\ flags.heads_attention) =>
                  /\ \A r \in Range(fw.trace) : "mul" \notin Range(r.inp) /\ "A" \notin Range(r.inp)
                  /\ "G" \in Range(o)
                  /\ "G" \in Range(n)

\* C17 witness: an invocation under heads_attention alone has finished
C17_Witness ==
    /\ Finished
    /\ ~flags.branch_guidance
    /\ flags.heads_attention
    /\ fw.result # "error"
    /\ CallOf("MASK_NONOVERLAP").inp = <<"mul", "F0", "A">>

\* position of a stage's call in the trace
PosOf(stage) == CHOOSE i \in 1..Len(fw.trace) : fw.trace[i].stage = stage

\* C18: with refinement on, the final whole-mask branch is called on F0 alone
\* with guiding layers off under pure_branch, and otherwise on
\* concat([F0, overlap intermediate, non-overlap intermediate]), in that order,
\* with guiding layers on; the overlap and the non-overlap branch of the same
\* invocation have run before it.
C18_RefinementInput ==
    (Finished /\ flags.refinement) =>
        /\ CallOf("MASK_WHOLE_FINAL") =
              IF flags.pure_branch THEN Ran("MASK_WHOLE_FINAL", <<"F0">>, FALSE)
              ELSE Ran("MASK_WHOLE_FINAL", <<"cat", "F0", "overlap_inner", "nonoverlap_inner">>, TRUE)
        /\ PosOf("MASK_OVERLAP") < PosOf("MASK_WHOLE_FINAL")
        /\ PosOf("MASK_NONOVERLAP") < PosOf("MASK_WHOLE_FINAL")

\* C18 witness: a finished invocation whose final branch ran on the concatenation
C18_Witness ==
    /\ Finished
    /\ flags.refinement
    /\ ~flags.pure_branch
    /\ "MASK_WHOLE_FINAL" \in StagesRun
    /\ CallOf("MASK_WHOLE_FINAL").guiding

\* C19: for every flag combination the training path and the inference path
\* call the same sequence of mask branches, each with the same feature input
\* and the same guiding_layers argument.
C19_RoutingEquivalence ==
    (routes.train # <<>> /\ routes.infer # <<>>) => routes.train = routes.infer

\* C19 witness: the head has run its mask branches in training and in inference
C19_Witness ==
    /\ head = "ok"
    /\ Len(routes.train) >= 3
    /\ Len(routes.infer) >= 3

\* the factor each source of a loss entry is added with
WeightOf(src, pre) ==
    CASE src = "MASK_WHOLE_PRE" -> pre
      [] src = "GUIDANCE_CONSISTENCY" -> <<1, 10>>
      [] src = "CONSISTENCY" -> <<1, 800>>
      [] OTHER -> <<1, 1>>

\* C20 as stated: in training, every loss of the preliminary whole-mask branch
\* (branch_guidance or heads_attention) enters the mapping times 0.75, the
\* overlap, non-overlap and refinement losses unscaled, the unlabeled
\* guidance-consistency term times 0.1 and the MX term times 0.00125.
C20_Original ==
    (Finished /\ fw.training) =>
        \A k \in 1..Len(fw.losses) : fw.losses[k].w = WeightOf(fw.losses[k].src, <<3, 4>>)

\* C20 (amended): the preliminary whole-mask loss enters times 0.75 when
\* branch_guidance is on and unscaled when only heads_attention is on; the
\* overlap, non-overlap and refinement losses unscaled, the unlabeled
\* guidance-consistency term times 0.1 and the MX term times 0.00125.
C20_LossWeights ==
    (Finished /\ fw.training) =>
        \A k \in 1..Len(fw.losses) :
            fw.losses[k].w = WeightOf(fw.losses[k].src,
                                      IF flags.branch_guidance THEN <<3, 4>> ELSE <<1, 1>>)

\* C20 witness: a labeled training invocation returned a guidance loss, the
\* losses of three more mask branches and the MX term
C20_Witness ==
    /\ Finished
    /\ fw.training
    /\ ~unlabeled
    /\ fw.result = "losses"
    /\ flags.branch_guidance
    /\ {"MASK_WHOLE_PRE", "MASK_OVERLAP", "MASK_NONOVERLAP", "MASK_WHOLE_FINAL", "CONSISTENCY"}
           \subseteq LossSources

(* --------------------- claims on the class filter ---------------------- *)
\* the class of proposal p (1-based) of image i before the filter remap
ClassBeforeRemap(i, p) ==
    IgnoreOverwrite(BackgroundOverwrite(At(GtClasses(in_targets[i]), locals[i].matched_idxs[p]),
                                        locals[i].matched_labels[p], num_classes),
                    locals[i].matched_labels[p])

\* proposal p of image i had class filter_out_class and was remapped
Remapped(i, p) ==
    /\ Len(in_targets[i]) > 0
    /\ in_filter # -1
    /\ ClassBeforeRemap(i, p) = in_filter

\* C21: for every num_classes and every filter_out_class other than -1, a
\* proposal whose class was remapped from filter_out_class is not in the
\* background pool (label = num_classes) and is not returned with the
\* background label.
C21_RemapNotBackground ==
    phase = "done" =>
        \A i \in 1..Len(out) :
            \A p \in 1..Len(locals[i].labels) :
                Remapped(i, p) =>
                    /\ locals[i].labels[p] # num_classes
                    /\ (p - 1) \notin Range(locals[i].sampled_bg_idxs)


\* ---------------------------------------------------------------------------
\* C22  Unlabeled mode selection.  A training invocation is unlabeled exactly
\* when the first image's target set is empty, whatever the other images hold.
\* Unlabeled: label_and_sample_proposals is not called, the box branch never
\* runs, and the mask branches get all input proposals.  Labeled:
\* label_and_sample_proposals is called, the box branch runs, and the mask
\* branches get the output of select_foreground_proposals(proposals,
\* num_classes) (whose gt_classes is neither -1 nor num_classes, see C26).
PastBox == fw.pc \notin {"idle", "health", "box"}

C22_UnlabeledMode ==
    (head = "ok" /\ fw.training /\ fw.pc # "idle") =>
        /\ unlabeled = fw.targets_empty[1]
        /\ unlabeled =>
              /\ ~fw.label_called
              /\ "BOX" \notin StagesRun
              /\ PastBox => fw.instances = "all_proposals"
        /\ ~unlabeled =>
              /\ fw.label_called
              /\ PastBox => ("BOX" \in StagesRun /\ fw.instances = "foreground_proposals")

\* a two-image unlabeled step whose second image has targets ran its mask
\* branches to the end
C22_Witness ==
    /\ Finished /\ fw.training /\ fw.result = "losses"
    /\ fw.targets_empty = <<TRUE, FALSE>>
    /\ fw.instances = "all_proposals"
    /\ "MASK_OVERLAP" \in StagesRun

\* a two-image labeled step whose second image has no target
C22_WitnessLabeled ==
    /\ Finished /\ fw.training /\ fw.result = "losses"
    /\ fw.targets_empty = <<FALSE, TRUE>>
    /\ fw.instances = "foreground_proposals"


\* ---------------------------------------------------------------------------
\* C23  No cross-step state.  The configuration flags are never written once
\* the head is constructed, and what an invocation does and returns depends
\* only on its own arguments (mode, targets, features) and those flags: it is
\* the same as what an earlier invocation of the same head with the same
\* arguments did, whatever ran in between and whatever value self.unlabeled
\* was left with.
SameArguments ==
    /\ ref.kept
    /\ fw.training = ref.training
    /\ fw.targets_empty = ref.targets_empty
    /\ fw.finite = ref.finite

C23_NoCrossStepState ==
    /\ [][head = "ok" => flags' = flags]_vars
    /\ []((Finished /\ SameArguments) => Outcome(fw) = ref.outcome)

\* an inference invocation returned after self.unlabeled was left FALSE; a later
\* inference invocation with the same arguments has returned after an unlabeled
\* training step left the marker TRUE
C23_Witness ==
    /\ Finished /\ SameArguments
    /\ ~fw.training /\ fw.result = "instances"
    /\ ~ref.marker /\ unlabeled


\* ---------------------------------------------------------------------------
\* C24  Non-finite features are non-fatal.  The finite-ness check comes before
\* any branch has run; a non-finite feature map is reported, and the invocation
\* then makes the same branch calls in the same order, the same loss updates
\* and returns the same kind of result as the invocation of the same head with
\* the same mode and targets on finite features.
FiniteTwin ==
    /\ ref.kept
    /\ ref.finite
    /\ fw.training = ref.training
    /\ fw.targets_empty = ref.targets_empty

C24_NonFiniteNonFatal ==
    /\ (head = "ok" /\ fw.pc = "health") => (fw.trace = <<>> /\ fw.losses = <<>> /\ ~fw.reported)
    /\ (head = "ok" /\ fw.pc \notin {"idle", "health"}) => (fw.reported <=> ~fw.finite)
    /\ (Finished /\ ~fw.finite /\ FiniteTwin) => Outcome(fw) = ref.outcome

\* a training step on non-finite features reported them, ran its mask branches
\* and returned losses, as the step on finite features kept before it did
C24_Witness ==
    /\ Finished /\ ~fw.finite /\ fw.reported /\ FiniteTwin
    /\ fw.training /\ fw.result = "losses"
    /\ "MASK_OVERLAP" \in StagesRun


\* ---------------------------------------------------------------------------
\* C25  Sampled indices are valid.  For every image, each index returned by
\* _sample_proposals lies in 0..N-1, N the number of candidate proposals; no
\* index is returned twice (the foreground and the background indices are
\* disjoint and each drawn without replacement); and no index refers to a
\* proposal whose label is -1 (ignored by the matcher).
NoRepeat(s) == \A a \in 1..Len(s) : \A b \in 1..Len(s) : s[a] = s[b] => a = b

C25_SampledIdxsValid ==
    phase = "done" =>
        \A i \in 1..Len(out) :
            LET L == locals[i]
                N == Len(L.labels)
            IN  /\ Range(L.sampled_idxs) \subseteq 0..(N - 1)
                /\ NoRepeat(L.sampled_idxs)
                /\ Range(L.sampled_fg_idxs) \cap Range(L.sampled_bg_idxs) = {}
                /\ \A k \in 1..Len(L.sampled_idxs) :
                      /\ At(L.labels, L.sampled_idxs[k]) # IgnoreLabel
                      /\ At(L.matched_labels, L.sampled_idxs[k]) # IgnoreLabel

\* a foreground and a background proposal were sampled and an ignored one left out
C25_Witness ==
    /\ phase = "done"
    /\ Len(out) = 1
    /\ Len(locals[1].sampled_fg_idxs) >= 1
    /\ Len(locals[1].sampled_bg_idxs) >= 1
    /\ \E p \in 1..Len(locals[1].labels) :
          /\ locals[1].labels[p] = IgnoreLabel
          /\ (p - 1) \notin Range(locals[1].sampled_idxs)


\* ---------------------------------------------------------------------------
\* C26  Foreground selection.  For every list of at least one labeled proposal
\* set and every bg_label, select_foreground_proposals returns one output set
\* and one boolean mask per input image, in the input order; the mask is true
\* exactly at the proposals whose gt_classes is neither -1 nor bg_label; the
\* output set holds exactly those proposals in their original relative order;
\* and the input sets are as they were before the call.
TrueUpTo(mask, p) == Cardinality({q \in 1..p : mask[q]})

\* the position in the input of the k-th selected proposal
KthSelected(mask, k) == CHOOSE p \in 1..Len(mask) : mask[p] /\ TrueUpTo(mask, p) = k

SelectionRight(i) ==
    LET props == sel.proposals[i]
        mask == sel.fg_selection_masks[i]
        fg == sel.fg_proposals[i]
    IN  /\ Len(mask) = Len(props)
        /\ \A p \in 1..Len(props) :
              mask[p] <=> (props[p].gt_classes # -1 /\ props[p].gt_classes # sel.bg_label)
        /\ Len(fg) = TrueUpTo(mask, Len(mask))
        /\ \A k \in 1..Len(fg) : fg[k] = props[KthSelected(mask, k)]

C26_ForegroundSelection ==
    (sel.pc # "idle" /\ Len(sel.proposals) >= 1) =>
        /\ sel.pc = "done"
        /\ Len(sel.fg_proposals) = Len(sel.proposals)
        /\ Len(sel.fg_selection_masks) = Len(sel.proposals)
        /\ \A i \in 1..Len(sel.proposals) : SelectionRight(i)
        /\ sel.proposals_after = sel.proposals

\* two images; the first holds an ignored and a foreground proposal, of which the
\* foreground one is kept, the second a background proposal, which is dropped
C26_Witness ==
    /\ sel.pc = "done"
    /\ Len(sel.proposals) = 2
    /\ Len(sel.proposals[1]) = 2
    /\ sel.proposals[1][1].gt_classes = -1
    /\ sel.fg_selection_masks[1] = <<FALSE, TRUE>>
    /\ sel.fg_proposals[1] = <<sel.proposals[1][2]>>
    /\ sel.fg_selection_masks[2] = <<FALSE>>
    /\ sel.fg_proposals[2] = <<>>

\* the claim as worded, for every list: also the list of no image gets an
\* (empty) result
C26_Original ==
    sel.pc # "idle" =>
        /\ sel.pc = "done"
        /\ Len(sel.fg_proposals) = Len(sel.proposals)
        /\ Len(sel.fg_selection_masks) = Len(sel.proposals)
        /\ \A i \in 1..Len(sel.proposals) : SelectionRight(i)
        /\ sel.proposals_after = sel.proposals


\* ---------------------------------------------------------------------------
\* C27 (amended)  Ground-truth augmentation guarantees positives.  With
\* proposal_append_gt on, filter_out_class disabled and
\* batch_size_per_image * positive_fraction >= 1, every image with at least one
\* target has at least one foreground proposal in the output of
\* label_and_sample_proposals, whatever the upstream proposals (none included).
HasForeground == \A i \in 1..Len(out) : Len(in_targets[i]) >= 1 => OutFg(i) # {}

C28_ConsistencyAvailable ==
    (Finished /\ fw.training /\ flags.consis_loss /\ flags.refinement) =>
        /\ fw.result = "losses"
        /\ "loss_triple_branch_consistency" \in LossKeys


\* ---------------------------------------------------------------------------
\* C29  Labeling leaves its inputs unchanged.  When label_and_sample_proposals
\* has returned, every target set holds the gt_classes, gt_boxes and gt_masks
\* it held before the call (the background, ignore and filter-remap overwrites
\* went to a per-proposal copy), and the caller's proposal sets have the boxes
\* and the fields they had: none is resized and none has got a gt_classes.
\* With proposal_append_gt on the loop works on the sets made by
\* add_ground_truth_to_proposals and the caller's sets are out of its reach.
CallerProposalsAfter(i) ==
    IF proposal_append_gt
    THEN [proposal_boxes |-> in_proposals[i], fields |-> {"proposal_boxes"}]
    ELSE locals[i].candidates_after

C30_FilterSelection ==
    (head = "ok" /\ fw.training /\ fw.label_called) =>
        fw.label_filter = IF flags.cfg_for_nuclei = "true" THEN 0
                          ELSE IF flags.rpn_attention_tb THEN 1
                          ELSE -1

====
